---- MODULE Spec2Model ----
(***************************************************************************)
(* Model of src/script/interpreter.rs (parity-bitcoin): the script         *)
(* interpreter eval_script, the signature / public key encoding validators *)
(* and the minimal-push rule.                                              *)
(*                                                                         *)
(* Bytes are naturals in 0..255, byte strings are sequences of bytes       *)
(* (Rust index i is TLA+ index i + 1), the stack is a sequence of byte     *)
(* strings whose last element is the top.                                  *)
(***************************************************************************)
EXTENDS Integers, Sequences, FiniteSets, TLC

VARIABLES
    \* ---- one call of eval_script
    script,     \* the script bytes (&Script)
    flags,      \* the VerificationFlags record
    checker,    \* the SignatureChecker implementation passed in
    stack,      \* the caller's stack (&mut Vec<Vec<u8>>)
    position,   \* the script iterator's position (bytes consumed)
    phase,      \* "entry" | "loop" | "break" | "returned" ("idle": no call)
    success,    \* the local `success` of line 364
    result,     \* "Pending" | "Ok(true)" | "Ok(false)" | "Err(<Error>)"
    stack0,     \* history: the stack the caller passed in
    executed,   \* history: the instruction executed by the last step
    before,     \* history: the stack before the last step
    \* ---- one use of the signature encoding validators
    sig,        \* the signature bytes under test
    sigPhase,   \* "idle" | "input" | "checked"
    sigValid,   \* is_valid_signature_encoding(sig), once checked
    sigHashtype,\* is_defined_hashtype_signature(sig), once checked
    prevSig,    \* history: the signature the last mutation started from
    prevValid,  \* history: whether prevSig was accepted
    mutated,    \* history: which field the last mutation changed
    sigReads,   \* the indices of sig that is_valid_signature_encoding read
    \* ---- one call of check_minimal_push, check_signature_encoding or
    \*      check_pubkey_encoding
    callFn,     \* the function called ("idle": none)
    callData,   \* its byte string argument
    callOpcode, \* the opcode argument of check_minimal_push
    callLowS,   \* what Signature::check_low_s answers for callData
    callRet,    \* "Pending" | "true" | "false" | "Ok(true)" | "Ok(false)" | "Err(<Error>)"
    callReads   \* the indices of callData that is_public_key read

evalVars == <<script, flags, checker, stack, position, phase, success, result,
              stack0, executed, before>>
sigVars == <<sig, sigPhase, sigValid, sigHashtype, prevSig, prevValid, mutated,
             sigReads>>
callVars == <<callFn, callData, callOpcode, callLowS, callRet, callReads>>
vars == <<script, flags, checker, stack, position, phase, success, result,
          stack0, executed, before,
          sig, sigPhase, sigValid, sigHashtype, prevSig, prevValid, mutated,
          sigReads,
          callFn, callData, callOpcode, callLowS, callRet, callReads>>

(***************************************************************************)
(* Bounds of the model.                                                    *)
(***************************************************************************)
\* instructions per generated script
MaxInstr == 2
\* depth of the stack the caller passes in
MaxStack == 2
\* length of the R and S integers of a generated signature
MaxIntLen == 2

(***************************************************************************)
(* Opcode values and limits of the script module.                          *)
(***************************************************************************)
OP_0 == 0
OP_PUSHBYTES_1 == 1
OP_PUSHBYTES_75 == 75
OP_PUSHDATA1 == 76
OP_PUSHDATA2 == 77
OP_PUSHDATA4 == 78
OP_1NEGATE == 79
OP_1 == 81
OP_16 == 96
OP_NOP == 97
OP_RETURN == 106
OP_DUP == 118
OP_EQUAL == 135
OP_EQUALVERIFY == 136
OP_NOP1 == 176
OP_CHECKLOCKTIMEVERIFY == 177
OP_NOP4 == 179
OP_NOP10 == 185
MAX_SCRIPT_SIZE == 10000

(***************************************************************************)
(* u8 arithmetic.                                                          *)
(***************************************************************************)
\* b & 0x80
And80(b) == IF b >= 128 THEN 128 ELSE 0
\* b & !0x80
AndNot80(b) == b % 128
\* !b on a u8: the bitwise complement
Not8(b) == 255 - b

Last(s) == s[Len(s)]
\* the stack s without its top n items
DropTop(s, n) == SubSeq(s, 1, Len(s) - n)

(***************************************************************************)
(* Num (script::Num): little-endian magnitude, sign in the high bit of the *)
(* last byte.                                                              *)
(***************************************************************************)
RECURSIVE Magnitude(_)
\* the little-endian value of the bytes, the sign bit of the last one masked off
Magnitude(data) ==
    IF Len(data) = 0 THEN 0
    ELSE IF Len(data) = 1 THEN AndNot80(data[1])
    ELSE data[1] + 256 * Magnitude(Tail(data))

\* Num::from_slice(data, require_minimal, max_size)
Num_from_slice(data, require_minimal, max_size) ==
    IF Len(data) > max_size
    THEN [ok |-> FALSE, value |-> 0]
    ELSE IF /\ require_minimal
            /\ Len(data) > 0
            /\ AndNot80(Last(data)) = 0
            /\ (Len(data) <= 1 \/ And80(data[Len(data) - 1]) = 0)
    THEN [ok |-> FALSE, value |-> 0]
    ELSE [ok |-> TRUE,
          value |-> IF Len(data) > 0 /\ And80(Last(data)) # 0
                    THEN 0 - Magnitude(data)
                    ELSE Magnitude(data)]

\* Num::to_vec for the small integers -1 .. 16 a PushValue carries
Num_to_vec(n) ==
    IF n = 0 THEN <<>>
    ELSE IF n < 0 THEN <<128 + (0 - n)>>
    ELSE <<n>>

(***************************************************************************)
(* The script iterator (script::Script::into_iter): the instruction that   *)
(* starts at byte `pos` of the script.                                     *)
(***************************************************************************)
RECURSIVE ReadLE(_, _, _)
\* the n-byte little-endian number at byte pos
ReadLE(s, pos, n) ==
    IF n = 0 THEN 0 ELSE s[pos + 1] + 256 * ReadLE(s, pos + 1, n - 1)

Malformed(op) == [kind |-> "Error", opcode |-> op, bytes |-> <<>>, next |-> 0]

\* a push of len bytes whose payload starts at byte `from`
TakeBytes(s, op, from, len) ==
    IF from + len > Len(s)
    THEN Malformed(op)
    ELSE [kind |-> "PushBytes", opcode |-> op,
          bytes |-> SubSeq(s, from + 1, from + len), next |-> from + len]

\* a PUSHDATAn: n length bytes, then the payload
TakePushData(s, op, pos, n) ==
    IF pos + 1 + n > Len(s)
    THEN Malformed(op)
    ELSE TakeBytes(s, op, pos + 1 + n, ReadLE(s, pos + 1, n))

take_instruction(s, pos) ==
    LET op == s[pos + 1] IN
    IF op <= OP_PUSHBYTES_75 THEN TakeBytes(s, op, pos + 1, op)
    ELSE IF op = OP_PUSHDATA1 THEN TakePushData(s, op, pos, 1)
    ELSE IF op = OP_PUSHDATA2 THEN TakePushData(s, op, pos, 2)
    ELSE IF op = OP_PUSHDATA4 THEN TakePushData(s, op, pos, 4)
    ELSE IF op = OP_1NEGATE \/ (op >= OP_1 /\ op <= OP_16)
    THEN [kind |-> "PushValue", opcode |-> op,
          bytes |-> Num_to_vec(op - (OP_1 - 1)), next |-> pos + 1]
    ELSE [kind |-> "Normal", opcode |-> op, bytes |-> <<>>, next |-> pos + 1]

(***************************************************************************)
(* SignatureChecker::check_lock_time.  NoopSignatureChecker denies every   *)
(* request; the trait admits implementations that accept.                  *)
(***************************************************************************)
Checkers == {"NoopSignatureChecker", "AcceptingChecker"}

check_lock_time(c, lock_time) ==
    IF c = "NoopSignatureChecker" THEN FALSE ELSE TRUE

(***************************************************************************)
(* check_minimal_push                                                      *)
(***************************************************************************)
\* check_minimal_push with the direct-push case ending one byte early
check_minimal_push_Direct74(data, opcode) ==
    IF Len(data) = 0
    THEN opcode = OP_0
    ELSE IF Len(data) = 1 /\ data[1] >= 1 /\ data[1] <= 16
    THEN opcode = OP_1 + (data[1] - 1)
    ELSE IF Len(data) = 1 /\ data[1] = 129
    THEN opcode = OP_1NEGATE
    ELSE IF Len(data) < 75
    THEN opcode = Len(data)
    ELSE IF Len(data) <= 255
    THEN opcode = OP_PUSHDATA1
    ELSE IF Len(data) <= 65535
    THEN opcode = OP_PUSHDATA2
    ELSE TRUE

\* check_minimal_push with the direct-push case accepting every opcode
check_minimal_push_AnyDirect(data, opcode) ==
    IF Len(data) = 0
    THEN opcode = OP_0
    ELSE IF Len(data) = 1 /\ data[1] >= 1 /\ data[1] <= 16
    THEN opcode = OP_1 + (data[1] - 1)
    ELSE IF Len(data) = 1 /\ data[1] = 129
    THEN opcode = OP_1NEGATE
    ELSE IF Len(data) <= 75
    THEN TRUE
    ELSE IF Len(data) <= 255
    THEN opcode = OP_PUSHDATA1
    ELSE IF Len(data) <= 65535
    THEN opcode = OP_PUSHDATA2
    ELSE TRUE

check_minimal_push(data, opcode) ==
    IF Len(data) = 0
    THEN opcode = OP_0
    ELSE IF Len(data) = 1 /\ data[1] >= 1 /\ data[1] <= 16
    THEN opcode = OP_1 + (data[1] - 1)
    ELSE IF Len(data) = 1 /\ data[1] = 129
    THEN opcode = OP_1NEGATE
    ELSE IF Len(data) <= 75
    THEN opcode = Len(data)
    ELSE IF Len(data) <= 255
    THEN opcode = OP_PUSHDATA1
    ELSE IF Len(data) <= 65535
    THEN opcode = OP_PUSHDATA2
    ELSE TRUE

(***************************************************************************)
(* eval_script: the effect of one instruction on the stack.  An outcome is *)
(* the stack after the instruction and what the loop does next: "Pending"  *)
(* (next instruction), "Break" (leave the loop) or "Err(e)" (return e).    *)
(***************************************************************************)
Outcome(s, r) == [stack |-> s, result |-> r]

\* Instruction::PushValue(_opcode, num)
PushValue(stk, num) == Outcome(Append(stk, num), "Pending")

\* PushBytes pushing first and checking the minimal push afterwards
PushBytes_PushFirst(stk, f, opcode, bytes) ==
    IF f.verify_minimaldata /\ ~check_minimal_push(bytes, opcode)
    THEN Outcome(Append(stk, bytes), "Err(Minimaldata)")
    ELSE Outcome(Append(stk, bytes), "Pending")

\* PushBytes enforcing the minimal push whatever verify_minimaldata says
PushBytes_AlwaysMinimal(stk, f, opcode, bytes) ==
    IF ~check_minimal_push(bytes, opcode)
    THEN Outcome(stk, "Err(Minimaldata)")
    ELSE Outcome(Append(stk, bytes), "Pending")

\* Instruction::PushBytes(opcode, bytes)
PushBytes(stk, f, opcode, bytes) ==
    IF f.verify_minimaldata /\ ~check_minimal_push(bytes, opcode)
    THEN Outcome(stk, "Err(Minimaldata)")
    ELSE Outcome(Append(stk, bytes), "Pending")

\* OP_NOP doing nothing, the loop going on
OpNop_Continue(stk) == Outcome(stk, "Pending")

\* Opcode::OP_NOP => break
OpNop(stk) == Outcome(stk, "Break")

\* OP_CHECKLOCKTIMEVERIFY looking at the stack before it looks at the flags
OpCheckLockTimeVerify_StackFirst(stk, f, c) ==
    IF Len(stk) = 0
    THEN Outcome(stk, "Err(InvalidStackOperation)")
    ELSE IF ~f.verify_clocktimeverify /\ f.verify_discourage_upgradable_nops
    THEN Outcome(stk, "Err(DiscourageUpgradableNops)")
    ELSE LET lock_time == Num_from_slice(Last(stk), f.verify_minimaldata, 5) IN
         IF ~lock_time.ok
         THEN Outcome(stk, "Err(Num)")
         ELSE IF lock_time.value < 0
         THEN Outcome(stk, "Err(NegativeLocktime)")
         ELSE IF ~check_lock_time(c, lock_time.value)
         THEN Outcome(stk, "Err(UnsatisfiedLocktime)")
         ELSE Outcome(stk, "Pending")

\* OP_CHECKLOCKTIMEVERIFY asking the checker before it rejects a negative value
OpCheckLockTimeVerify_CheckerFirst(stk, f, c) ==
    IF ~f.verify_clocktimeverify /\ f.verify_discourage_upgradable_nops
    THEN Outcome(stk, "Err(DiscourageUpgradableNops)")
    ELSE IF Len(stk) = 0
    THEN Outcome(stk, "Err(InvalidStackOperation)")
    ELSE LET lock_time == Num_from_slice(Last(stk), f.verify_minimaldata, 5) IN
         IF ~lock_time.ok
         THEN Outcome(stk, "Err(Num)")
         ELSE IF ~check_lock_time(c, lock_time.value)
         THEN Outcome(stk, "Err(UnsatisfiedLocktime)")
         ELSE IF lock_time.value < 0
         THEN Outcome(stk, "Err(NegativeLocktime)")
         ELSE Outcome(stk, "Pending")

\* Opcode::OP_CHECKLOCKTIMEVERIFY
OpCheckLockTimeVerify(stk, f, c) ==
    IF ~f.verify_clocktimeverify /\ f.verify_discourage_upgradable_nops
    THEN Outcome(stk, "Err(DiscourageUpgradableNops)")
    ELSE IF Len(stk) = 0
    THEN Outcome(stk, "Err(InvalidStackOperation)")
    ELSE LET lock_time == Num_from_slice(Last(stk), f.verify_minimaldata, 5) IN
         IF ~lock_time.ok
         THEN Outcome(stk, "Err(Num)")
         ELSE IF lock_time.value < 0
         THEN Outcome(stk, "Err(NegativeLocktime)")
         ELSE IF ~check_lock_time(c, lock_time.value)
         THEN Outcome(stk, "Err(UnsatisfiedLocktime)")
         ELSE Outcome(stk, "Pending")

\* Opcode::OP_NOP1 | OP_NOP4 | ... | OP_NOP10
OpNopN(stk, f) ==
    IF f.verify_discourage_upgradable_nops
    THEN Outcome(stk, "Err(DiscourageUpgradableNops)")
    ELSE Outcome(stk, "Pending")

\* OP_RETURN failing only when the stack is empty
OpReturn_NeedsEmptyStack(stk) ==
    IF Len(stk) = 0
    THEN Outcome(stk, "Err(ReturnOpcode)")
    ELSE Outcome(stk, "Pending")

\* Opcode::OP_RETURN
OpReturn(stk) == Outcome(stk, "Err(ReturnOpcode)")

\* OP_EQUAL pushing the empty byte string for false
OpEqual_EmptyFalse(stk) ==
    IF Len(stk) < 2
    THEN Outcome(stk, "Err(InvalidStackOperation)")
    ELSE LET equal == stk[Len(stk)] = stk[Len(stk) - 1]
             to_push == IF equal THEN <<1>> ELSE <<>>
         IN  Outcome(Append(DropTop(stk, 2), to_push), "Pending")

\* Opcode::OP_EQUAL
OpEqual(stk) ==
    IF Len(stk) < 2
    THEN Outcome(stk, "Err(InvalidStackOperation)")
    ELSE LET equal == stk[Len(stk)] = stk[Len(stk) - 1]
             to_push == IF equal THEN <<1>> ELSE <<0>>
         IN  Outcome(Append(DropTop(stk, 2), to_push), "Pending")

\* OP_EQUALVERIFY comparing in place and popping only on success
OpEqualVerify_PopOnSuccess(stk) ==
    IF Len(stk) < 2
    THEN Outcome(stk, "Err(InvalidStackOperation)")
    ELSE LET equal == stk[Len(stk)] = stk[Len(stk) - 1] IN
         IF ~equal
         THEN Outcome(stk, "Err(EqualVerify)")
         ELSE Outcome(DropTop(stk, 2), "Pending")

\* Opcode::OP_EQUALVERIFY
OpEqualVerify(stk) ==
    IF Len(stk) < 2
    THEN Outcome(stk, "Err(InvalidStackOperation)")
    ELSE LET equal == stk[Len(stk)] = stk[Len(stk) - 1] IN
         IF ~equal
         THEN Outcome(DropTop(stk, 2), "Err(EqualVerify)")
         ELSE Outcome(DropTop(stk, 2), "Pending")

\* _ => ()
OpOther(stk) == Outcome(stk, "Pending")

IsUpgradableNop(op) == op = OP_NOP1 \/ (op >= OP_NOP4 /\ op <= OP_NOP10)

IsOther(op) ==
    /\ op # OP_NOP
    /\ op # OP_CHECKLOCKTIMEVERIFY
    /\ ~IsUpgradableNop(op)
    /\ op # OP_RETURN
    /\ op # OP_EQUAL
    /\ op # OP_EQUALVERIFY

\* the verdict of lines 364-367
Success(stk) ==
    /\ Len(stk) # 0
    /\ LET last == Last(stk) IN last # [i \in 1..Len(last) |-> 0]

(***************************************************************************)
(* eval_script as a state machine: the size check, one step per            *)
(* instruction of the loop, and the return after the loop.                 *)
(***************************************************************************)
\* the instruction the iterator yields next
Cur == take_instruction(script, position)

InLoop == phase = "loop" /\ position < Len(script)

\* the loop applies outcome o of instruction i
Apply(i, o) ==
    /\ stack' = o.stack
    /\ position' = i.next
    /\ phase' = IF o.result = "Pending" THEN "loop"
                ELSE IF o.result = "Break" THEN "break"
                ELSE "returned"
    /\ result' = IF o.result = "Break" THEN "Pending" ELSE o.result
    /\ executed' = [kind |-> i.kind, opcode |-> i.opcode]
    /\ before' = stack
    /\ UNCHANGED <<script, flags, checker, success, stack0>>
    /\ UNCHANGED sigVars
    /\ UNCHANGED callVars

\* eval_script without the check of the script's length
Begin_NoSizeCheck ==
    /\ phase = "entry"
    /\ phase' = "loop" /\ result' = "Pending"
    /\ UNCHANGED <<script, flags, checker, stack, position, success, stack0,
                   executed, before>>
    /\ UNCHANGED sigVars
    /\ UNCHANGED callVars

\* lines 272-274
Begin ==
    /\ phase = "entry"
    /\ IF Len(script) > MAX_SCRIPT_SIZE
       THEN phase' = "returned" /\ result' = "Err(ScriptSize)"
       ELSE phase' = "loop" /\ result' = "Pending"
    /\ UNCHANGED <<script, flags, checker, stack, position, success, stack0,
                   executed, before>>
    /\ UNCHANGED sigVars
    /\ UNCHANGED callVars

\* try!(i) on an instruction the iterator could not read
StepMalformed ==
    /\ InLoop
    /\ Cur.kind = "Error"
    /\ Apply(Cur, Outcome(stack, "Err(Script)"))

StepPushValue ==
    /\ InLoop
    /\ Cur.kind = "PushValue"
    /\ Apply(Cur, PushValue(stack, Cur.bytes))

StepPushBytes ==
    /\ InLoop
    /\ Cur.kind = "PushBytes"
    /\ Apply(Cur, PushBytes(stack, flags, Cur.opcode, Cur.bytes))

StepNop ==
    /\ InLoop
    /\ Cur.kind = "Normal" /\ Cur.opcode = OP_NOP
    /\ Apply(Cur, OpNop(stack))

StepCheckLockTimeVerify ==
    /\ InLoop
    /\ Cur.kind = "Normal" /\ Cur.opcode = OP_CHECKLOCKTIMEVERIFY
    /\ Apply(Cur, OpCheckLockTimeVerify(stack, flags, checker))

StepNopN ==
    /\ InLoop
    /\ Cur.kind = "Normal" /\ IsUpgradableNop(Cur.opcode)
    /\ Apply(Cur, OpNopN(stack, flags))

StepReturn ==
    /\ InLoop
    /\ Cur.kind = "Normal" /\ Cur.opcode = OP_RETURN
    /\ Apply(Cur, OpReturn(stack))

StepEqual ==
    /\ InLoop
    /\ Cur.kind = "Normal" /\ Cur.opcode = OP_EQUAL
    /\ Apply(Cur, OpEqual(stack))

StepEqualVerify ==
    /\ InLoop
    /\ Cur.kind = "Normal" /\ Cur.opcode = OP_EQUALVERIFY
    /\ Apply(Cur, OpEqualVerify(stack))

StepOther ==
    /\ InLoop
    /\ Cur.kind = "Normal" /\ IsOther(Cur.opcode)
    /\ Apply(Cur, OpOther(stack))

\* the value eval_script returns after the loop (line 369)
Verdict(ok) == "Ok(true)"

\* lines 364-369: the loop ended (no instruction left, or a break)
Finish ==
    /\ \/ phase = "loop" /\ position >= Len(script)
       \/ phase = "break"
    /\ success' = Success(stack)
    /\ result' = Verdict(Success(stack))
    /\ phase' = "returned"
    /\ executed' = [kind |-> "Return", opcode |-> 0]
    /\ before' = stack
    /\ UNCHANGED <<script, flags, checker, stack, position, stack0>>
    /\ UNCHANGED sigVars
    /\ UNCHANGED callVars

(***************************************************************************)
(* The inputs of eval_script.                                              *)
(***************************************************************************)
\* sequences over S of length at most n
RECURSIVE SeqsUpTo(_, _)
SeqsUpTo(S, n) ==
    IF n = 0 THEN {<<>>}
    ELSE LET shorter == SeqsUpTo(S, n - 1) IN
         shorter \cup {Append(s, x) : s \in shorter, x \in S}

\* stack items: the numbers 1 and -1 and a non-minimal encoding of 1
Items == {<<1>>, <<129>>, <<1, 0>>}

\* a number of six bytes, one more than OP_CHECKLOCKTIMEVERIFY decodes
LongItem == <<1, 0, 0, 0, 0, 1>>

InitStacks == SeqsUpTo(Items, MaxStack) \cup {<<LongItem>>}

\* one encoded instruction each; the last is a push cut short
Chunks == {
    <<OP_PUSHBYTES_1, 90>>,
    <<OP_1>>,
    <<OP_NOP>>,
    <<OP_CHECKLOCKTIMEVERIFY>>,
    <<OP_NOP1>>,
    <<OP_RETURN>>,
    <<OP_EQUAL>>,
    <<OP_EQUALVERIFY>>,
    <<OP_DUP>>,
    <<OP_PUSHDATA1, 2, 90>> }

RECURSIVE Concat(_)
Concat(ss) == IF Len(ss) = 0 THEN <<>> ELSE Head(ss) \o Concat(Tail(ss))

\* the four scripts of test_push_data
direct == <<OP_PUSHBYTES_1, 90>>
pushdata1 == <<OP_PUSHDATA1, 1, 90>>
pushdata2 == <<OP_PUSHDATA2, 1, 0, 90>>
pushdata4 == <<OP_PUSHDATA4, 1, 0, 0, 0, 90>>
PushDataScripts == {direct, pushdata1, pushdata2, pushdata4}

\* one PUSHDATA2 of MAX_SCRIPT_SIZE - 2 bytes: a script of MAX_SCRIPT_SIZE + 1 bytes
Oversized ==
    LET n == MAX_SCRIPT_SIZE - 2 IN
    <<OP_PUSHDATA2, n % 256, n \div 256>> \o [i \in 1..n |-> 90]

\* MAX_SCRIPT_SIZE + 1 bytes of OP_RETURN
OversizedReturn == [i \in 1..(MAX_SCRIPT_SIZE + 1) |-> OP_RETURN]

\* OP_NOP4 .. OP_NOP10, each a script of its own
NopScripts == {<<op>> : op \in OP_NOP4..OP_NOP10}

Scripts ==
    {Concat(cs) : cs \in SeqsUpTo(Chunks, MaxInstr)}
        \cup PushDataScripts \cup {Oversized, OversizedReturn} \cup NopScripts

\* the flags eval_script reads vary; the others are not read by it
EvalFlags ==
    {[verify_dersig |-> FALSE, verify_low_s |-> FALSE, verify_strictenc |-> FALSE,
      verify_minimaldata |-> m, verify_clocktimeverify |-> c,
      verify_discourage_upgradable_nops |-> d] : m, c, d \in BOOLEAN}

Init ==
    /\ script \in Scripts
    /\ flags \in EvalFlags
    /\ checker \in Checkers
    /\ stack \in InitStacks
    /\ position = 0
    /\ phase = "entry"
    /\ success = FALSE
    /\ result = "Pending"
    /\ stack0 = stack
    /\ executed = [kind |-> "None", opcode |-> 0]
    /\ before = stack
    \* no signature is under test
    /\ sig = <<>>
    /\ sigPhase = "idle"
    /\ sigValid = FALSE
    /\ sigHashtype = FALSE
    /\ prevSig = <<>>
    /\ prevValid = FALSE
    /\ mutated = "none"
    /\ sigReads = {}
    \* no call of the encoding checks is under way
    /\ callFn = "idle"
    /\ callData = <<>>
    /\ callOpcode = 0
    /\ callLowS = FALSE
    /\ callRet = "Pending"
    /\ callReads = {}

Next ==
    \/ Begin
    \/ StepMalformed
    \/ StepPushValue
    \/ StepPushBytes
    \/ StepNop
    \/ StepCheckLockTimeVerify
    \/ StepNopN
    \/ StepReturn
    \/ StepEqual
    \/ StepEqualVerify
    \/ StepOther
    \/ Finish

Spec == Init /\ [][Next]_vars

(***************************************************************************)
(* The signature encoding validators.                                      *)
(***************************************************************************)
\* v[i] of the source
At(v, i) == v[i + 1]

\* v[i] where the index is inside v (outside it the source panics)
Get(v, i) == IF i < Len(v) THEN v[i + 1] ELSE 0

\* the indices of sig that is_valid_signature_encoding reads, branch by branch
is_valid_signature_encoding_reads(s) ==
    IF Len(s) < 9 \/ Len(s) > 73 THEN {}
    ELSE IF Get(s, 0) # 48 THEN {0}
    ELSE IF Get(s, 1) # Len(s) - 3 THEN {0, 1}
    ELSE LET len_r == Get(s, 3) IN
    IF len_r + 5 >= Len(s) THEN {0, 1, 3}
    ELSE LET len_s == Get(s, len_r + 5)
             lens == {0, 1, 3, len_r + 5}
         IN
    IF len_r + len_s + 7 # Len(s) THEN lens
    ELSE IF Get(s, 2) # 2 THEN lens \cup {2}
    ELSE IF len_r = 0 THEN lens \cup {2}
    ELSE IF And80(Get(s, 4)) # 0 THEN lens \cup {2, 4}
    ELSE LET r == lens \cup {2, 4}
                  \cup (IF len_r > 1 /\ Get(s, 4) = 0 THEN {5} ELSE {})
         IN
    IF len_r > 1 /\ Get(s, 4) = 0 /\ Not8(And80(Get(s, 5))) # 0 THEN r
    ELSE IF Get(s, len_r + 4) # 2 THEN r \cup {len_r + 4}
    ELSE IF len_s = 0 THEN r \cup {len_r + 4}
    ELSE IF And80(Get(s, len_r + 6)) # 0 THEN r \cup {len_r + 4, len_r + 6}
    ELSE r \cup {len_r + 4, len_r + 6}
           \cup (IF len_s > 1 /\ Get(s, len_r + 6) = 0
                 THEN {len_r + 7} ELSE {})

\* is_valid_signature_encoding without the upper bound on the length
is_valid_signature_encoding_NoMaxSize(s) ==
    IF Len(s) < 9 THEN FALSE
    ELSE IF At(s, 0) # 48 THEN FALSE
    ELSE IF At(s, 1) # Len(s) - 3 THEN FALSE
    ELSE LET len_r == At(s, 3) IN
    IF len_r + 5 >= Len(s) THEN FALSE
    ELSE LET len_s == At(s, len_r + 5) IN
    IF len_r + len_s + 7 # Len(s) THEN FALSE
    ELSE IF At(s, 2) # 2 THEN FALSE
    ELSE IF len_r = 0 THEN FALSE
    ELSE IF And80(At(s, 4)) # 0 THEN FALSE
    ELSE IF len_r > 1 /\ At(s, 4) = 0 /\ Not8(And80(At(s, 5))) # 0 THEN FALSE
    ELSE IF At(s, len_r + 4) # 2 THEN FALSE
    ELSE IF len_s = 0 THEN FALSE
    ELSE IF And80(At(s, len_r + 6)) # 0 THEN FALSE
    ELSE IF /\ len_s > 1
            /\ At(s, len_r + 6) = 0
            /\ Not8(And80(At(s, len_r + 7))) # 0 THEN FALSE
    ELSE TRUE

\* is_valid_signature_encoding without the check of S's type tag
is_valid_signature_encoding_NoTagS(s) ==
    IF Len(s) < 9 \/ Len(s) > 73 THEN FALSE
    ELSE IF At(s, 0) # 48 THEN FALSE
    ELSE IF At(s, 1) # Len(s) - 3 THEN FALSE
    ELSE LET len_r == At(s, 3) IN
    IF len_r + 5 >= Len(s) THEN FALSE
    ELSE LET len_s == At(s, len_r + 5) IN
    IF len_r + len_s + 7 # Len(s) THEN FALSE
    ELSE IF At(s, 2) # 2 THEN FALSE
    ELSE IF len_r = 0 THEN FALSE
    ELSE IF And80(At(s, 4)) # 0 THEN FALSE
    ELSE IF len_r > 1 /\ At(s, 4) = 0 /\ Not8(And80(At(s, 5))) # 0 THEN FALSE
    ELSE IF len_s = 0 THEN FALSE
    ELSE IF And80(At(s, len_r + 6)) # 0 THEN FALSE
    ELSE IF /\ len_s > 1
            /\ At(s, len_r + 6) = 0
            /\ Not8(And80(At(s, len_r + 7))) # 0 THEN FALSE
    ELSE TRUE

is_valid_signature_encoding(s) ==
    \* Minimum and maximum size constraints
    IF Len(s) < 9 \/ Len(s) > 73 THEN FALSE
    \* A signature is of type 0x30 (compound)
    ELSE IF At(s, 0) # 48 THEN FALSE
    \* Make sure the length covers the entire signature
    ELSE IF At(s, 1) # Len(s) - 3 THEN FALSE
    ELSE LET len_r == At(s, 3) IN
    \* Make sure the length of the S element is still inside the signature
    IF len_r + 5 >= Len(s) THEN FALSE
    ELSE LET len_s == At(s, len_r + 5) IN
    \* Verify that the length of the signature matches the sum of the lengths
    IF len_r + len_s + 7 # Len(s) THEN FALSE
    \* Check whether the R element is an integer
    ELSE IF At(s, 2) # 2 THEN FALSE
    \* Zero-length integers are not allowed for R
    ELSE IF len_r = 0 THEN FALSE
    \* Negative numbers are not allowed for R
    ELSE IF And80(At(s, 4)) # 0 THEN FALSE
    \* Null bytes at the start of R: (!(sig[5] & 0x80)) != 0, `!` the u8 complement
    ELSE IF len_r > 1 /\ At(s, 4) = 0 /\ Not8(And80(At(s, 5))) # 0 THEN FALSE
    \* Check whether the S element is an integer
    ELSE IF At(s, len_r + 4) # 2 THEN FALSE
    \* Zero-length integers are not allowed for S
    ELSE IF len_s = 0 THEN FALSE
    \* Negative numbers are not allowed for S
    ELSE IF And80(At(s, len_r + 6)) # 0 THEN FALSE
    \* Null bytes at the start of S
    ELSE IF /\ len_s > 1
            /\ At(s, len_r + 6) = 0
            /\ Not8(And80(At(s, len_r + 7))) # 0 THEN FALSE
    ELSE TRUE

\* SignatureHash
SignatureHash_All == 1
SignatureHash_None == 2
SignatureHash_Single == 3
SignatureHash_AnyoneCanPay == 128

is_defined_hashtype_signature(s) ==
    IF Len(s) = 0 THEN FALSE
    ELSE LET n_hashtype == At(s, Len(s) - 1) % SignatureHash_AnyoneCanPay IN
         IF n_hashtype < SignatureHash_All /\ n_hashtype > SignatureHash_Single
         THEN FALSE
         ELSE TRUE

(***************************************************************************)
(* The validators applied to signatures: well-formed signatures over a     *)
(* small alphabet, and those signatures with one byte changed.             *)
(***************************************************************************)
\* bytes of the R and S integers
IntBytes == {0, 2, 128}

\* R and S integers: one to MaxIntLen bytes
IntValues == SeqsUpTo(IntBytes, MaxIntLen) \ {<<>>}

\* the hash type bytes tried
HashtypeBytes == {0, 1, 2, 3, 4, 127, 128, 129, 131, 132}

\* 0x30 total-length 0x02 R-length R 0x02 S-length S sighash
Encode(r, s, hashtype) ==
    <<48, Len(r) + Len(s) + 4, 2, Len(r)>> \o r \o <<2, Len(s)>> \o s
        \o <<hashtype>>

\* n bytes of 1
Ones(n) == [i \in 1..n |-> 1]

\* signatures of 8, 73 and 74 bytes, and signatures of 9 bytes whose length
\* bytes point past their end
EdgeSigInputs ==
    {<<48, 5, 2, 1, 2, 2, 0, 1>>,
     Encode(Ones(33), Ones(33), 1),
     Encode(Ones(33), Ones(34), 1),
     <<48, 6, 2, 200, 2, 2, 1, 2, 1>>,
     <<48, 6, 2, 1, 2, 2, 200, 2, 1>>,
     <<48, 6, 2, 3, 0, 2, 1, 2, 1>>,
     <<48, 6, 2, 4, 0, 2, 1, 2, 1>>}

SigInputs ==
    {Encode(r, s, 1) : r, s \in IntValues}
        \cup {Encode(<<2>>, <<2>>, h) : h \in HashtypeBytes}
        \cup {<<>>, <<1>>, <<0>>}
        \cup EdgeSigInputs

\* the structural bytes of a signature s whose R-length byte is read at index 3
FieldIndex(s, field) ==
    CASE field = "tag" -> 0
      [] field = "total_len" -> 1
      [] field = "tag_r" -> 2
      [] field = "len_r" -> 3
      [] field = "sign_r" -> 4
      [] field = "tag_s" -> At(s, 3) + 4
      [] field = "len_s" -> At(s, 3) + 5
      [] field = "sign_s" -> At(s, 3) + 6

Fields == {"tag", "total_len", "tag_r", "len_r", "sign_r", "tag_s", "len_s",
           "sign_s"}

\* the values a tag or length byte is changed to
MutationBytes == {0, 1, 2, 3, 5, 48, 49}

SigInit ==
    /\ sig \in SigInputs
    /\ sigPhase = "input"
    /\ sigValid = FALSE
    /\ sigHashtype = FALSE
    /\ prevSig = <<>>
    /\ prevValid = FALSE
    /\ mutated = "none"
    /\ sigReads = {}
    \* no call of the encoding checks is under way
    /\ callFn = "idle"
    /\ callData = <<>>
    /\ callOpcode = 0
    /\ callLowS = FALSE
    /\ callRet = "Pending"
    /\ callReads = {}
    \* no call of eval_script is under way
    /\ script = <<>>
    /\ flags = [verify_dersig |-> FALSE, verify_low_s |-> FALSE,
                verify_strictenc |-> FALSE, verify_minimaldata |-> FALSE,
                verify_clocktimeverify |-> FALSE,
                verify_discourage_upgradable_nops |-> FALSE]
    /\ checker = "NoopSignatureChecker"
    /\ stack = <<>>
    /\ position = 0
    /\ phase = "idle"
    /\ success = FALSE
    /\ result = "Pending"
    /\ stack0 = <<>>
    /\ executed = [kind |-> "None", opcode |-> 0]
    /\ before = <<>>

\* is_valid_signature_encoding and is_defined_hashtype_signature run on sig
CheckSignature ==
    /\ sigPhase = "input"
    /\ sigValid' = is_valid_signature_encoding(sig)
    /\ sigHashtype' = is_defined_hashtype_signature(sig)
    /\ sigReads' = is_valid_signature_encoding_reads(sig)
    /\ sigPhase' = "checked"
    /\ UNCHANGED <<sig, prevSig, prevValid, mutated>>
    /\ UNCHANGED evalVars
    /\ UNCHANGED callVars

\* one tag or length byte of an accepted signature is changed
MutateByte ==
    /\ sigPhase = "checked"
    /\ sigValid
    /\ mutated = "none"
    /\ \E field \in Fields \ {"sign_r", "sign_s"}, b \in MutationBytes :
          /\ b # At(sig, FieldIndex(sig, field))
          /\ sig' = [sig EXCEPT ![FieldIndex(sig, field) + 1] = b]
          /\ mutated' = field
    /\ prevSig' = sig
    /\ prevValid' = sigValid
    /\ sigPhase' = "input"
    /\ UNCHANGED <<sigValid, sigHashtype, sigReads>>
    /\ UNCHANGED evalVars
    /\ UNCHANGED callVars

\* the sign bit of the first byte of R or of S of an accepted signature is flipped
FlipSign ==
    /\ sigPhase = "checked"
    /\ sigValid
    /\ mutated = "none"
    /\ \E field \in {"sign_r", "sign_s"} :
          LET i == FieldIndex(sig, field) IN
          /\ sig' = [sig EXCEPT ![i + 1] = (At(sig, i) + 128) % 256]
          /\ mutated' = field
    /\ prevSig' = sig
    /\ prevValid' = sigValid
    /\ sigPhase' = "input"
    /\ UNCHANGED <<sigValid, sigHashtype, sigReads>>
    /\ UNCHANGED evalVars
    /\ UNCHANGED callVars

SigNext == CheckSignature \/ MutateByte \/ FlipSign

SigSpec == SigInit /\ [][SigNext]_vars

(***************************************************************************)
(* Helpers of the properties.                                              *)
(***************************************************************************)
IsOk(r) == r \in {"Ok(true)", "Ok(false)"}
IsErr(r) == r \notin {"Pending", "Ok(true)", "Ok(false)"}

\* the last step executed the Normal instruction op
Executed(op) == executed.kind = "Normal" /\ executed.opcode = op

\* the top of the stack holds a non-zero byte
TopIsTrue(stk) ==
    /\ Len(stk) > 0
    /\ \E i \in 1..Len(Last(stk)) : Last(stk)[i] # 0

RECURSIVE InstructionsFrom(_, _)
\* the instructions of script s from byte pos on, up to the first malformed one
InstructionsFrom(s, pos) ==
    IF pos >= Len(s) THEN <<>>
    ELSE LET i == take_instruction(s, pos) IN
         IF i.kind = "Error" THEN <<i>>
         ELSE <<i>> \o InstructionsFrom(s, i.next)

\* s is made only of well-formed PushBytes instructions
PushBytesOnly(s) ==
    LET is == InstructionsFrom(s, 0) IN
    \A k \in 1..Len(is) : is[k].kind = "PushBytes"

\* the payloads of the instructions of s that end at or before byte pos
PayloadsBefore(s, pos) ==
    LET is == InstructionsFrom(s, 0)
        n == Cardinality({k \in 1..Len(is) : is[k].next <= pos})
    IN  [k \in 1..n |-> is[k].bytes]

(***************************************************************************)
(* C1.  When eval_script finishes without an error, the verdict is true    *)
(* iff the final stack is non-empty and its top holds a non-zero byte.     *)
(* The code computes that value and returns Ok(true) whatever it is.       *)
(***************************************************************************)
C1_VerdictIsTopOfStack ==
    (phase = "returned" /\ IsOk(result))
        => ((result = "Ok(true)") <=> TopIsTrue(stack))

(***************************************************************************)
(* C2.  OP_CHECKLOCKTIMEVERIFY with verify_clocktimeverify and             *)
(* verify_discourage_upgradable_nops both off is a no-op: no error, the    *)
(* stack unchanged, the loop goes on.  The code falls through to the       *)
(* stack and lock time checks.                                             *)
(***************************************************************************)
C2_LockTimeVerifyOffIsNoop ==
    (/\ Executed(OP_CHECKLOCKTIMEVERIFY)
     /\ ~flags.verify_clocktimeverify
     /\ ~flags.verify_discourage_upgradable_nops)
        => (stack = before /\ result = "Pending" /\ phase = "loop")

(***************************************************************************)
(* C3.  As claimed: with verify_minimaldata on, each of the four scripts   *)
(* of test_push_data, run on an empty stack, finishes without error and    *)
(* leaves the stack [[0x5a]].                                              *)
(***************************************************************************)
C3_AllFourPushUnderMinimaldata ==
    (/\ phase = "returned"
     /\ script \in PushDataScripts
     /\ stack0 = <<>>
     /\ flags.verify_minimaldata)
        => (IsOk(result) /\ stack = << <<90>> >>)

(***************************************************************************)
(* C3, amended.  Run on an empty stack, the four scripts finish without    *)
(* error and leave [[0x5a]] when verify_minimaldata is off; when it is on  *)
(* only the OP_PUSHBYTES_1 script does, and the OP_PUSHDATA1, OP_PUSHDATA2 *)
(* and OP_PUSHDATA4 scripts fail with Minimaldata and leave the stack      *)
(* empty.                                                                  *)
(***************************************************************************)
C3_FourPushes ==
    (/\ phase = "returned"
     /\ script \in PushDataScripts
     /\ stack0 = <<>>)
        => IF ~flags.verify_minimaldata \/ script = direct
           THEN IsOk(result) /\ stack = << <<90>> >>
           ELSE result = "Err(Minimaldata)" /\ stack = <<>>

C3_Witness ==
    /\ phase = "returned"
    /\ script = pushdata4
    /\ stack0 = <<>>
    /\ flags.verify_minimaldata
    /\ result = "Err(Minimaldata)"

(***************************************************************************)
(* C4.  As claimed: with verify_minimaldata off, every script made only of *)
(* pushes returns success and leaves the initial stack followed by its     *)
(* payloads, whatever push opcodes encode them.                            *)
(***************************************************************************)
C4_PushesAlwaysSucceed ==
    (/\ phase = "returned"
     /\ ~flags.verify_minimaldata
     /\ PushBytesOnly(script))
        => (/\ result = "Ok(true)"
            /\ stack = stack0 \o PayloadsBefore(script, Len(script)))

(***************************************************************************)
(* C4, amended.  With verify_minimaldata off, in a script of at most       *)
(* MAX_SCRIPT_SIZE bytes made only of pushes no PushBytes instruction      *)
(* fails and each appends exactly its payload: after every instruction the *)
(* stack is the initial stack followed by the payloads read so far, and    *)
(* eval_script returns success.                                            *)
(***************************************************************************)
C4_PushesWithinScriptSize ==
    (/\ phase \in {"loop", "returned"}
     /\ ~flags.verify_minimaldata
     /\ Len(script) <= MAX_SCRIPT_SIZE
     /\ PushBytesOnly(script))
        => (/\ stack = stack0 \o PayloadsBefore(script, position)
            /\ ~IsErr(result)
            /\ phase = "returned" => result = "Ok(true)")

C4_Witness ==
    /\ phase = "returned"
    /\ ~flags.verify_minimaldata
    /\ script = pushdata2
    /\ Len(stack0) = 2
    /\ stack = Append(stack0, <<90>>)
    /\ result = "Ok(true)"

(***************************************************************************)
(* The canonical signature of the comment on is_valid_signature_encoding.  *)
(***************************************************************************)
\* not negative: the first byte has its highest bit clear
IntNotNegative(x) == x[1] < 128
\* a first byte of zero is followed by a byte with its highest bit set
IntNotPadded(x) == (Len(x) > 1 /\ x[1] = 0) => x[2] >= 128
\* a single zero byte that keeps an otherwise negative number positive
IntHasNeededZero(x) == Len(x) > 1 /\ x[1] = 0 /\ x[2] >= 128

\* the R (field = 0) or S (field = 1) integer of a signature laid out as
\* 0x30 total-length 0x02 R-length R 0x02 S-length S sighash
IntOf(s, field) ==
    LET lr == At(s, 3) IN
    IF field = 0 THEN SubSeq(s, 5, 4 + lr)
    ELSE SubSeq(s, lr + 7, lr + 6 + At(s, lr + 5))

IsCanonicalSignature(s) ==
    /\ Len(s) >= 9 /\ Len(s) <= 73
    /\ At(s, 0) = 48
    /\ At(s, 1) = Len(s) - 3
    /\ At(s, 2) = 2
    /\ At(s, 3) >= 1
    /\ At(s, 3) + 5 < Len(s)
    /\ At(s, At(s, 3) + 4) = 2
    /\ At(s, At(s, 3) + 5) >= 1
    /\ At(s, 3) + At(s, At(s, 3) + 5) + 7 = Len(s)
    /\ \A field \in {0, 1} :
          IntNotNegative(IntOf(s, field)) /\ IntNotPadded(IntOf(s, field))

(***************************************************************************)
(* C5.  A signature that meets every structural rule and whose R or S      *)
(* begins with a single 0x00 followed by a byte with its high bit set is   *)
(* accepted by is_valid_signature_encoding.  The code rejects every R or S *)
(* longer than one byte that begins with 0x00.                             *)
(***************************************************************************)
C5_NeededZeroAccepted ==
    (/\ sigPhase = "checked"
     /\ IsCanonicalSignature(sig)
     /\ \E field \in {0, 1} : IntHasNeededZero(IntOf(sig, field)))
        => sigValid

(***************************************************************************)
(* C6.  is_defined_hashtype_signature is false for the empty input and     *)
(* otherwise true iff the last byte, the 0x80 bit masked off, is 1, 2 or   *)
(* 3.  The code returns true for every non-empty input.                    *)
(***************************************************************************)
C6_HashtypeDefined ==
    sigPhase = "checked"
        => (sigHashtype <=> (/\ Len(sig) > 0
                             /\ Last(sig) % 128 \in {1, 2, 3}))

(***************************************************************************)
(* C7.  As claimed: changing one structural byte of an accepted signature  *)
(* (a tag, a length byte, or the sign bit of R or S) yields a signature    *)
(* that is rejected.                                                       *)
(***************************************************************************)
C7_AnyStructuralMutationRejected ==
    (sigPhase = "checked" /\ mutated \in Fields /\ prevValid)
        => ~sigValid

(***************************************************************************)
(* C7, amended.  Changing the 0x30 tag, the total-length byte, the 0x02    *)
(* tag of R or of S, the length byte of S, or the sign bit of the first    *)
(* byte of R or of S of an accepted signature yields a signature that is   *)
(* rejected; changing the length byte of R may yield an accepted one.      *)
(***************************************************************************)
C7_MutationRejected ==
    (sigPhase = "checked" /\ mutated \in Fields \ {"len_r"} /\ prevValid)
        => ~sigValid

C7_Witness ==
    /\ sigPhase = "checked"
    /\ mutated = "tag_s"
    /\ prevValid
    /\ Len(prevSig) = 11
    /\ ~sigValid

(***************************************************************************)
(* C8.  OP_CHECKLOCKTIMEVERIFY with verify_clocktimeverify on: an empty    *)
(* stack gives InvalidStackOperation; else a top item that does not decode *)
(* as a Num of at most 5 bytes (minimal iff verify_minimaldata) gives the  *)
(* number error; else a negative value gives NegativeLocktime; else a      *)
(* refusal of check_lock_time gives UnsatisfiedLocktime; else the loop     *)
(* goes on.  The stack is as it was in every case.                         *)
(***************************************************************************)
C8_LockTimeVerifyOrder ==
    (Executed(OP_CHECKLOCKTIMEVERIFY) /\ flags.verify_clocktimeverify)
        => /\ stack = before
           /\ result =
                IF before = <<>> THEN "Err(InvalidStackOperation)"
                ELSE LET n == Num_from_slice(Last(before),
                                             flags.verify_minimaldata, 5) IN
                     IF ~n.ok THEN "Err(Num)"
                     ELSE IF n.value < 0 THEN "Err(NegativeLocktime)"
                     ELSE IF checker = "NoopSignatureChecker"
                     THEN "Err(UnsatisfiedLocktime)"
                     ELSE "Pending"
           /\ phase = IF result = "Pending" THEN "loop" ELSE "returned"

C8_Witness ==
    /\ Executed(OP_CHECKLOCKTIMEVERIFY)
    /\ flags.verify_clocktimeverify
    /\ ~flags.verify_minimaldata
    /\ Len(before) = 2
    /\ Last(before) = <<1, 0>>
    /\ stack = before
    /\ result = "Err(UnsatisfiedLocktime)"

(***************************************************************************)
(* C9.  OP_EQUAL on a stack of at least two items replaces the top two by  *)
(* [1] if they are the same bytes and by [0] otherwise, the items below    *)
(* unchanged; on a shorter stack it fails with InvalidStackOperation and   *)
(* the stack is unchanged.                                                 *)
(***************************************************************************)
C9_Equal ==
    Executed(OP_EQUAL)
        => IF Len(before) >= 2
           THEN /\ result = "Pending"
                /\ Len(stack) = Len(before) - 1
                /\ \A k \in 1..(Len(before) - 2) : stack[k] = before[k]
                /\ Last(stack) =
                     IF before[Len(before)] = before[Len(before) - 1]
                     THEN <<1>> ELSE <<0>>
           ELSE result = "Err(InvalidStackOperation)" /\ stack = before

C9_Witness ==
    /\ Executed(OP_EQUAL)
    /\ Len(before) = 3
    /\ before[3] # before[2]
    /\ stack = <<before[1], <<0>> >>
    /\ result = "Pending"

(***************************************************************************)
(* C10.  OP_EQUALVERIFY on a stack of at least two items removes the top   *)
(* two and pushes nothing: the loop goes on if they are equal, and if not  *)
(* it fails with EqualVerify and the caller sees the stack without them;   *)
(* on a shorter stack it fails with InvalidStackOperation and the stack is *)
(* unchanged.                                                              *)
(***************************************************************************)
C10_EqualVerify ==
    Executed(OP_EQUALVERIFY)
        => IF Len(before) >= 2
           THEN /\ stack = SubSeq(before, 1, Len(before) - 2)
                /\ result = IF before[Len(before)] = before[Len(before) - 1]
                            THEN "Pending" ELSE "Err(EqualVerify)"
                /\ phase = IF result = "Pending" THEN "loop" ELSE "returned"
           ELSE /\ result = "Err(InvalidStackOperation)"
                /\ phase = "returned"
                /\ stack = before

C10_Witness ==
    /\ Executed(OP_EQUALVERIFY)
    /\ Len(before) = 3
    /\ before[3] # before[2]
    /\ stack = <<before[1]>>
    /\ result = "Err(EqualVerify)"
    /\ phase = "returned"


(***************************************************************************)
(* C11.  With verify_discourage_upgradable_nops on, OP_NOP1, OP_NOP4 ..    *)
(* OP_NOP10, and OP_CHECKLOCKTIMEVERIFY while verify_clocktimeverify is    *)
(* off, fail with DiscourageUpgradableNops on every stack, the empty one   *)
(* included, and leave the stack unchanged; with it off, OP_NOP1 and       *)
(* OP_NOP4 .. OP_NOP10 leave the stack unchanged and the loop goes on.     *)
(***************************************************************************)
UpgradableNops == {176, 179, 180, 181, 182, 183, 184, 185}

C11_DiscourageUpgradableNops ==
    LET nop == executed.kind = "Normal" /\ executed.opcode \in UpgradableNops
        cltv == Executed(OP_CHECKLOCKTIMEVERIFY) /\ ~flags.verify_clocktimeverify
    IN  /\ ((nop \/ cltv) /\ flags.verify_discourage_upgradable_nops)
              => (/\ result = "Err(DiscourageUpgradableNops)"
                  /\ phase = "returned"
                  /\ stack = before)
        /\ (nop /\ ~flags.verify_discourage_upgradable_nops)
              => (result = "Pending" /\ phase = "loop" /\ stack = before)

C11_Witness ==
    /\ Executed(OP_CHECKLOCKTIMEVERIFY)
    /\ ~flags.verify_clocktimeverify
    /\ flags.verify_discourage_upgradable_nops
    /\ before = <<>>
    /\ result = "Err(DiscourageUpgradableNops)"
    /\ stack = <<>>

(***************************************************************************)
(* C12.  A script longer than MAX_SCRIPT_SIZE bytes makes eval_script      *)
(* return ScriptSize before any instruction is executed: the stack is the  *)
(* stack passed in and no instruction (so no call of the checker) has run, *)
(* whatever the script holds and whatever the flags.                       *)
(***************************************************************************)
C12_ScriptSize ==
    (phase = "returned" /\ Len(script) > MAX_SCRIPT_SIZE)
        => (/\ result = "Err(ScriptSize)"
            /\ stack = stack0
            /\ executed.kind = "None"
            /\ position = 0)

C12_Witness ==
    /\ phase = "returned"
    /\ script = OversizedReturn
    /\ Len(stack0) = 2
    /\ flags.verify_minimaldata
    /\ result = "Err(ScriptSize)"
    /\ stack = stack0

(***************************************************************************)
(* C13.  OP_RETURN fails with ReturnOpcode on every stack, the empty one   *)
(* included, under every flag set; it leaves the stack as it was and no    *)
(* later instruction runs.                                                 *)
(***************************************************************************)
C13_ReturnOpcode ==
    Executed(OP_RETURN)
        => (/\ result = "Err(ReturnOpcode)"
            /\ stack = before
            /\ phase = "returned"
            /\ ~ENABLED Next)

C13_Witness ==
    /\ Executed(OP_RETURN)
    /\ Len(before) = 2
    /\ position < Len(script)
    /\ result = "Err(ReturnOpcode)"
    /\ stack = before


(***************************************************************************)
(* C19.  OP_NOP halts the loop: the step that executes it leaves the stack *)
(* as it is and leaves the loop, and the only step after it is the return, *)
(* which reads no further instruction, keeps the stack and returns no      *)
(* error, whatever follows OP_NOP in the script.                           *)
(***************************************************************************)
C19_NopHalts ==
    [][/\ (InLoop /\ Cur.kind = "Normal" /\ Cur.opcode = OP_NOP)
            => (phase' = "break" /\ stack' = stack /\ result' = "Pending")
       /\ (phase = "break")
            => (/\ phase' = "returned"
                /\ position' = position
                /\ stack' = stack
                /\ IsOk(result'))]_vars

C19_Witness ==
    /\ phase = "returned"
    /\ script = <<OP_NOP, OP_RETURN>>
    /\ position = 1
    /\ Len(stack0) = 2
    /\ stack = stack0
    /\ result = "Ok(true)"

(***************************************************************************)
(* C20.  As claimed: whenever eval_script returns an error, the stack is   *)
(* the stack the caller passed in.                                         *)
(***************************************************************************)
C20_FailureRestoresStack ==
    (phase = "returned" /\ IsErr(result)) => stack = stack0

(***************************************************************************)
(* C20, amended.  Whenever eval_script returns an error the stack is what  *)
(* the instructions executed so far made of it: the failing instruction    *)
(* leaves the stack as it found it, except a failing OP_EQUALVERIFY, which *)
(* has removed its two operands; what earlier instructions pushed or       *)
(* popped stays.  A ScriptSize error leaves the stack passed in.           *)
(***************************************************************************)
C20_FailureKeepsEffects ==
    (phase = "returned" /\ IsErr(result))
        => /\ IF result = "Err(EqualVerify)"
              THEN Executed(OP_EQUALVERIFY)
                   /\ stack = SubSeq(before, 1, Len(before) - 2)
              ELSE stack = before
           /\ result = "Err(ScriptSize)" => stack = stack0

C20_Witness ==
    /\ phase = "returned"
    /\ script = <<OP_PUSHBYTES_1, 90, OP_RETURN>>
    /\ result = "Err(ReturnOpcode)"
    /\ Len(stack0) = 1
    /\ stack = Append(stack0, <<90>>)


(***************************************************************************)
(* C15.  is_valid_signature_encoding reads no index outside its input,     *)
(* whatever the length bytes say, and returns false for every input        *)
(* shorter than 9 or longer than 73 bytes.                                 *)
(***************************************************************************)
C15_TotalAndLengthBounded ==
    sigPhase = "checked"
        => /\ \A i \in sigReads : i >= 0 /\ i < Len(sig)
           /\ (Len(sig) < 9 \/ Len(sig) > 73) => ~sigValid

C15_Witness ==
    /\ sigPhase = "checked"
    /\ sig = Encode(Ones(33), Ones(34), 1)
    /\ Len(sig) = 74
    /\ ~sigValid
    /\ sigReads = {}


(***************************************************************************)
(* The encoding checks called on their own: is_public_key,                 *)
(* check_pubkey_encoding, check_signature_encoding and check_minimal_push. *)
(***************************************************************************)
\* is_public_key accepting the prefix 4 on 33 bytes as well
is_public_key_Prefix4On33(v) ==
    \/ Len(v) = 33 /\ (v[1] = 2 \/ v[1] = 3 \/ v[1] = 4)
    \/ Len(v) = 65 /\ v[1] = 4

is_public_key(v) ==
    \/ Len(v) = 33 /\ (v[1] = 2 \/ v[1] = 3)
    \/ Len(v) = 65 /\ v[1] = 4

\* the indices of v that is_public_key reads: the guards of the arms 33 and 65
is_public_key_reads(v) == IF Len(v) \in {33, 65} THEN {0} ELSE {}

\* low_s is the answer of Signature::check_low_s for sig
is_low_der_signature(s, low_s) ==
    IF ~is_valid_signature_encoding(s) THEN "Err(SignatureDer)"
    ELSE IF ~low_s THEN "Err(SignatureHighS)"
    ELSE "Ok(true)"

\* check_signature_encoding without the case of the empty signature
check_signature_encoding_NoEmptyCase(s, f, low_s) ==
    IF (f.verify_dersig \/ f.verify_low_s \/ f.verify_strictenc)
            /\ ~is_valid_signature_encoding(s)
    THEN "Err(SignatureDer)"
    ELSE IF f.verify_low_s /\ IsErr(is_low_der_signature(s, low_s))
    THEN is_low_der_signature(s, low_s)
    ELSE IF f.verify_low_s /\ is_low_der_signature(s, low_s) = "Ok(false)"
    THEN "Ok(false)"
    ELSE IF f.verify_strictenc /\ ~is_defined_hashtype_signature(s)
    THEN "Err(SignatureHashtype)"
    ELSE "Ok(true)"

check_signature_encoding(s, f, low_s) ==
    IF Len(s) = 0 THEN "Ok(true)"
    ELSE IF (f.verify_dersig \/ f.verify_low_s \/ f.verify_strictenc)
            /\ ~is_valid_signature_encoding(s)
    THEN "Err(SignatureDer)"
    \* try!: an error of is_low_der_signature is returned as it is
    ELSE IF f.verify_low_s /\ IsErr(is_low_der_signature(s, low_s))
    THEN is_low_der_signature(s, low_s)
    ELSE IF f.verify_low_s /\ is_low_der_signature(s, low_s) = "Ok(false)"
    THEN "Ok(false)"
    ELSE IF f.verify_strictenc /\ ~is_defined_hashtype_signature(s)
    THEN "Err(SignatureHashtype)"
    ELSE "Ok(true)"

check_pubkey_encoding(v, f) ==
    IF f.verify_strictenc /\ ~is_public_key(v)
    THEN "Err(PubkeyType)"
    ELSE "Ok(true)"

\* n bytes of b
Fill(n, b) == [i \in 1..n |-> b]

\* public keys: the lengths around 33 and 65, each with every prefix
PubkeyInputs ==
    {Fill(n, b) : n \in {0, 1, 32, 33, 34, 64, 65, 66}, b \in 1..5}

\* payloads on both sides of every length check_minimal_push tells apart
PushInputs ==
    {<<b>> : b \in {0, 1, 5, 16, 17, 90, 128, 129}}
        \cup {Fill(n, 90) : n \in {0, 2, 75, 76, 255, 256, 65535, 65536}}

PushOpcodes ==
    {OP_0, OP_PUSHBYTES_1, OP_PUSHBYTES_1 + 1, OP_PUSHBYTES_75, OP_PUSHDATA1,
     OP_PUSHDATA2, OP_PUSHDATA4, OP_1NEGATE, OP_1, OP_1 + 4, OP_16, OP_NOP}

\* the flags the encoding checks read
EncodingFlags ==
    {[verify_dersig |-> d, verify_low_s |-> l, verify_strictenc |-> s,
      verify_minimaldata |-> FALSE, verify_clocktimeverify |-> FALSE,
      verify_discourage_upgradable_nops |-> FALSE] : d, l, s \in BOOLEAN}

Functions ==
    {"is_public_key", "check_pubkey_encoding", "check_signature_encoding",
     "check_minimal_push"}

CallInit ==
    /\ callFn \in Functions
    /\ callData \in
         IF callFn = "check_minimal_push" THEN PushInputs
         ELSE IF callFn = "check_signature_encoding" THEN SigInputs
         ELSE PubkeyInputs
    /\ callOpcode \in IF callFn = "check_minimal_push" THEN PushOpcodes ELSE {0}
    /\ callLowS \in IF callFn = "check_signature_encoding" THEN BOOLEAN ELSE {FALSE}
    /\ flags \in
         IF callFn \in {"check_signature_encoding", "check_pubkey_encoding"}
         THEN EncodingFlags
         ELSE {[verify_dersig |-> FALSE, verify_low_s |-> FALSE,
                verify_strictenc |-> FALSE, verify_minimaldata |-> FALSE,
                verify_clocktimeverify |-> FALSE,
                verify_discourage_upgradable_nops |-> FALSE]}
    /\ callRet = "Pending"
    /\ callReads = {}
    \* no signature is under test
    /\ sig = <<>>
    /\ sigPhase = "idle"
    /\ sigValid = FALSE
    /\ sigHashtype = FALSE
    /\ prevSig = <<>>
    /\ prevValid = FALSE
    /\ mutated = "none"
    /\ sigReads = {}
    \* no call of eval_script is under way
    /\ script = <<>>
    /\ checker = "NoopSignatureChecker"
    /\ stack = <<>>
    /\ position = 0
    /\ phase = "idle"
    /\ success = FALSE
    /\ result = "Pending"
    /\ stack0 = <<>>
    /\ executed = [kind |-> "None", opcode |-> 0]
    /\ before = <<>>

\* the call returns ret after reading the indices reads of callData
Return(ret, reads) ==
    /\ callRet = "Pending"
    /\ callRet' = ret
    /\ callReads' = reads
    /\ UNCHANGED <<callFn, callData, callOpcode, callLowS>>
    /\ UNCHANGED evalVars
    /\ UNCHANGED sigVars

CallIsPublicKey ==
    /\ callFn = "is_public_key"
    /\ Return(IF is_public_key(callData) THEN "true" ELSE "false",
              is_public_key_reads(callData))

CallCheckPubkeyEncoding ==
    /\ callFn = "check_pubkey_encoding"
    /\ Return(check_pubkey_encoding(callData, flags),
              IF flags.verify_strictenc
              THEN is_public_key_reads(callData) ELSE {})

CallCheckSignatureEncoding ==
    /\ callFn = "check_signature_encoding"
    /\ Return(check_signature_encoding(callData, flags, callLowS), {})

CallCheckMinimalPush ==
    /\ callFn = "check_minimal_push"
    /\ Return(IF check_minimal_push(callData, callOpcode)
              THEN "true" ELSE "false", {})

CallNext ==
    \/ CallIsPublicKey
    \/ CallCheckPubkeyEncoding
    \/ CallCheckSignatureEncoding
    \/ CallCheckMinimalPush

CallSpec == CallInit /\ [][CallNext]_vars

\* the call of fn has returned
Returned(fn) == callFn = fn /\ callRet # "Pending"

(***************************************************************************)
(* C14.  check_minimal_push(data, opcode) is true exactly when: data is    *)
(* empty and opcode is OP_0; data is one byte of value 1..16 and opcode is *)
(* OP_1 + (value - 1); data is the byte 0x81 and opcode is OP_1NEGATE;     *)
(* data is anything else of at most 75 bytes and opcode equals its length; *)
(* data has 76..255 bytes and opcode is OP_PUSHDATA1; data has 256..65535  *)
(* bytes and opcode is OP_PUSHDATA2; data is longer, with any opcode.      *)
(***************************************************************************)
C14_MinimalPush ==
    Returned("check_minimal_push") =>
        LET n == Len(callData)
            small == n = 1 /\ callData[1] \in 1..16
            minus == n = 1 /\ callData[1] = 129
            required ==
                /\ n = 0 => callOpcode = OP_0
                /\ small => callOpcode = OP_1 + (callData[1] - 1)
                /\ minus => callOpcode = OP_1NEGATE
                /\ (n \in 1..75 /\ ~small /\ ~minus) => callOpcode = n
                /\ n \in 76..255 => callOpcode = OP_PUSHDATA1
                /\ n \in 256..65535 => callOpcode = OP_PUSHDATA2
        IN  /\ callRet \in {"true", "false"}
            /\ callRet = "true" <=> required

C14_Witness ==
    /\ Returned("check_minimal_push")
    /\ Len(callData) = 75
    /\ callOpcode = OP_PUSHBYTES_75
    /\ callRet = "true"

(***************************************************************************)
(* C16.  check_signature_encoding returns Ok(true) for the empty signature *)
(* under every flag combination; for a non-empty signature that            *)
(* is_valid_signature_encoding rejects it returns the SignatureDer error   *)
(* when verify_dersig, verify_low_s or verify_strictenc is set; with none  *)
(* of the three set it returns Ok(true) for every signature.               *)
(***************************************************************************)
C16_SignatureEncoding ==
    Returned("check_signature_encoding") =>
        LET any == flags.verify_dersig \/ flags.verify_low_s \/ flags.verify_strictenc
        IN  /\ callData = <<>> => callRet = "Ok(true)"
            /\ (callData # <<>> /\ any /\ ~is_valid_signature_encoding(callData))
                   => callRet = "Err(SignatureDer)"
            /\ ~any => callRet = "Ok(true)"

C16_Witness ==
    /\ Returned("check_signature_encoding")
    /\ callData = <<>>
    /\ flags.verify_dersig /\ flags.verify_low_s /\ flags.verify_strictenc
    /\ callRet = "Ok(true)"

(***************************************************************************)
(* C17.  With verify_strictenc set, check_signature_encoding returns the   *)
(* SignatureHashtype error for every non-empty, structurally valid         *)
(* signature, low-S when verify_low_s is set, whose last byte without the  *)
(* 0x80 bit is not 1, 2 or 3.                                              *)
(***************************************************************************)
C17_UndefinedHashtypeRejected ==
    ( /\ Returned("check_signature_encoding")
      /\ flags.verify_strictenc
      /\ callData # <<>>
      /\ is_valid_signature_encoding(callData)
      /\ flags.verify_low_s => callLowS
      /\ AndNot80(Last(callData)) \notin {1, 2, 3} )
        => callRet = "Err(SignatureHashtype)"

(***************************************************************************)
(* C18.  is_public_key is true exactly for 33 bytes starting with 2 or 3   *)
(* and 65 bytes starting with 4, and reads no byte of any other input, the *)
(* empty one included; check_pubkey_encoding returns the PubkeyType error  *)
(* iff verify_strictenc is set and is_public_key is false, else Ok(true).  *)
(***************************************************************************)
C18_PublicKey ==
    /\ Returned("is_public_key") =>
        /\ callRet \in {"true", "false"}
        /\ callRet = "true" <=>
              \/ Len(callData) = 33 /\ callData[1] \in {2, 3}
              \/ Len(callData) = 65 /\ callData[1] = 4
        /\ \A i \in callReads : i < Len(callData)
        /\ callData = <<>> => callReads = {}
    /\ Returned("check_pubkey_encoding") =>
        /\ callRet \in {"Err(PubkeyType)", "Ok(true)"}
        /\ callRet = "Err(PubkeyType)" <=>
              flags.verify_strictenc /\ ~is_public_key(callData)

C18_Witness ==
    /\ Returned("is_public_key")
    /\ callData = Fill(33, 4)
    /\ callRet = "false"
    /\ callReads = {0}

====
